---- MODULE Spec2Model ----
(***************************************************************************)
(* Model of src/server.py: the report normaliser parse_gst_report, the     *)
(* eligibility engine calculate_eligibility and its REST wrapper           *)
(* api_calculate_eligibility.                                              *)
(*                                                                         *)
(* Numbers.  Monetary inputs are integers.  The code multiplies by 0.3 and *)
(* divides debt by turnover in binary floating point; the model keeps the  *)
(* exact rational instead:                                                 *)
(*   - max_eligible and approved_amount are held in TENTHS of a currency   *)
(*     unit (max_eligible = 3 * annual_turnover tenths);                   *)
(*   - dti_ratio is held in THOUSANDTHS, as round(dti, 3) returns it, and  *)
(*     the comparison dti > 0.4 is done on the unrounded fraction;         *)
(*   - approval_probability is held in hundredths.                         *)
(* Every turnover explored is a multiple of 10, so turnover * 0.3 is an    *)
(* integer and the float product is exact; no explored ratio lies on a     *)
(* rounding tie of round(dti, 3).                                          *)
(***************************************************************************)
EXTENDS Integers, FiniteSets, Sequences, TLC

VARIABLES pc, op, business_data, report, body, result, parsed, response

vars == <<pc, op, business_data, report, body, result, parsed, response>>

\* Number of small turnover / debt / amount steps explored besides the
\* scenario values.
MaxUnits == 2

(***************************************************************************)
(* JSON values as the handlers see them after decoding.                    *)
(***************************************************************************)
Num(n) == [kind |-> "num", num |-> n, str |-> ""]
StrV(s) == [kind |-> "str", num |-> 0, str |-> s]
Null == [kind |-> "null", num |-> 0, str |-> ""]
ListV == [kind |-> "list", num |-> 0, str |-> ""]
Absent == [kind |-> "absent", num |-> 0, str |-> ""]

\* dict.get(key, default)
get(d, key, default) == IF d[key].kind = "absent" THEN default ELSE d[key]

\* A value on which Python's <, >, >=, *, / against a number raise TypeError.
NotNumber(v) == v.kind # "num"

\* bool(d) of a dict is False exactly when it has no key.
IsEmptyDict(d) == \A k \in DOMAIN d : d[k].kind = "absent"

(***************************************************************************)
(* calculate_eligibility                                                   *)
(***************************************************************************)
EligibilityKeys ==
    {"annual_turnover", "existing_debt", "loan_amount", "requested_amount",
     "credit_score_numeric", "collateral_available", "filing_compliance_score"}

NoResult ==
    [status |-> "none", error |-> "", decision |-> "", reason |-> "",
     approved_amount |-> 0, max_eligible |-> 0, risk_rating |-> "",
     approval_probability |-> 0, dti_ratio |-> 0, credit_score |-> 0]

Raised(e) == [NoResult EXCEPT !.status = "raise", !.error = e]

\* round(n / d * 1000) for n >= 0, d > 0, digit by digit so that no
\* intermediate product leaves the 32-bit range.
RoundPos(n, d) ==
    LET q0 == n \div d
        r0 == n % d
        d1 == (10 * r0) \div d
        r1 == (10 * r0) % d
        d2 == (10 * r1) \div d
        r2 == (10 * r1) % d
        d3 == (10 * r2) \div d
        r3 == (10 * r2) % d
        t  == 1000 * q0 + 100 * d1 + 10 * d2 + d3
    IN IF 2 * r3 > d \/ (2 * r3 = d /\ t % 2 = 1) THEN t + 1 ELSE t

\* round(x, 3) of the fraction n / d (d > 0), in thousandths.
round3(n, d) == IF n >= 0 THEN RoundPos(n, d) ELSE 0 - RoundPos(0 - n, d)

dti_ratio_zero(existing_debt, annual_turnover) ==
    IF annual_turnover > 0 THEN <<existing_debt, annual_turnover>> ELSE <<0, 1>>

\* line 351: the ratio as the fraction <<numerator, denominator>>.
dti_ratio(existing_debt, annual_turnover) ==
    IF annual_turnover > 0 THEN <<existing_debt, annual_turnover>> ELSE <<1, 1>>

\* dti_ratio > 0.4 on the unrounded fraction (denominator > 0).
dti_too_high(dti) == 10 * dti[1] > 4 * dti[2]

max_eligible_capped(annual_turnover) ==
    IF 3 * annual_turnover < 75000000
    THEN 3 * annual_turnover ELSE 75000000

\* line 353, in tenths.  collateral_available is never read by the code.
max_eligible(annual_turnover) == 3 * annual_turnover

risk_rating_coarse(credit_score) ==
    IF credit_score >= 750 THEN "LOW"
    ELSE IF credit_score >= 550 THEN "MEDIUM"
    ELSE "HIGH"

\* lines 355-366; the decision is not consulted.
risk_rating(credit_score) ==
    IF credit_score >= 750 THEN "LOW"
    ELSE IF credit_score >= 650 THEN "LOW-MEDIUM"
    ELSE IF credit_score >= 550 THEN "MEDIUM"
    ELSE "HIGH"

\* lines 355-366, in hundredths.
approval_probability(credit_score) ==
    IF credit_score >= 750 THEN 90
    ELSE IF credit_score >= 650 THEN 75
    ELSE IF credit_score >= 550 THEN 60
    ELSE 30

approved_amount_uncapped(decision, requested_amount, max_elig) ==
    IF decision # "DECLINED" THEN 10 * requested_amount ELSE 0

\* line 384, in tenths: min(requested_amount, max_eligible) unless DECLINED.
approved_amount(decision, requested_amount, max_elig) ==
    IF decision # "DECLINED"
    THEN IF 10 * requested_amount < max_elig
         THEN 10 * requested_amount ELSE max_elig
    ELSE 0

\* lines 343-391.  The reason of CONDITIONAL is kept without the formatted
\* amount; assessed_at (the wall clock) is left out.
calculate_eligibility(bd) ==
    LET annual_turnover == get(bd, "annual_turnover", Num(0))
        existing_debt == get(bd, "existing_debt", Num(0))
        requested_amount == get(bd, "loan_amount", Num(0))
        credit_score == get(bd, "credit_score_numeric", Num(750))
    IN
    \* line 351: annual_turnover > 0, then existing_debt / annual_turnover
    IF NotNumber(annual_turnover) THEN Raised("TypeError")
    ELSE IF annual_turnover.num > 0 /\ NotNumber(existing_debt)
    THEN Raised("TypeError")
    \* line 355: credit_score >= 750
    ELSE IF NotNumber(credit_score) THEN Raised("TypeError")
    ELSE
    LET dti == dti_ratio(existing_debt.num, annual_turnover.num)
        max_elig == max_eligible(annual_turnover.num)
    IN
    \* line 371 is evaluated only when line 368 is false
    IF ~dti_too_high(dti) /\ NotNumber(requested_amount)
    THEN Raised("TypeError")
    ELSE
    LET decision ==
            IF dti_too_high(dti) THEN "DECLINED"
            ELSE IF 10 * requested_amount.num > max_elig THEN "CONDITIONAL"
            ELSE IF credit_score.num < 550 THEN "DECLINED"
            ELSE "APPROVED"
        reason ==
            IF dti_too_high(dti) THEN "Debt-to-income ratio too high"
            ELSE IF 10 * requested_amount.num > max_elig
            THEN "Requested amount exceeds maximum eligible amount"
            ELSE IF credit_score.num < 550 THEN "Credit score too low"
            ELSE "All eligibility criteria met"
    IN [status |-> "return", error |-> "",
        decision |-> decision, reason |-> reason,
        approved_amount |->
            approved_amount(decision, requested_amount.num, max_elig),
        max_eligible |-> max_elig,
        risk_rating |-> risk_rating(credit_score.num),
        approval_probability |-> approval_probability(credit_score.num),
        dti_ratio |-> round3(dti[1], dti[2]),
        credit_score |-> credit_score.num]

(***************************************************************************)
(* POST /api/calculate-eligibility                                         *)
(*                                                                         *)
(* body.kind: "invalid_json" (request.json() raises JSONDecodeError),      *)
(* "not_object" (valid JSON that is no object: body.get raises             *)
(* AttributeError) or "object".  For an object, body.business_data says    *)
(* what the key holds: "missing", "null", "falsy" (0, "", []), "truthy"    *)
(* (a non-empty value that is no object) or "dict", the object then being  *)
(* the argument bd.                                                        *)
(***************************************************************************)
JSONResponse(content, status_code, error) ==
    [status_code |-> status_code, error |-> error, content |-> content]

NoResponse == JSONResponse(NoResult, 0, "")

api_calculate_eligibility_unchecked(b, bd) ==
    IF b.kind = "invalid_json" THEN JSONResponse(NoResult, 400, "Invalid JSON")
    ELSE IF b.kind = "not_object"
    THEN JSONResponse(NoResult, 500, "AttributeError")
    ELSE IF b.business_data \in {"missing", "null", "falsy"}
    THEN JSONResponse(NoResult, 400, "business_data field is required")
    ELSE IF b.business_data = "truthy"
    THEN JSONResponse(NoResult, 500, "AttributeError")
    ELSE LET r == calculate_eligibility(bd)
         IN IF r.status = "raise"
            THEN JSONResponse(NoResult, 500, r.error)
            ELSE JSONResponse(r, 200, "")

\* lines 148-162
api_calculate_eligibility(b, bd) ==
    \* line 151 -> line 159
    IF b.kind = "invalid_json" THEN JSONResponse(NoResult, 400, "Invalid JSON")
    \* line 152 on a list, number or string -> line 161
    ELSE IF b.kind = "not_object"
    THEN JSONResponse(NoResult, 500, "AttributeError")
    \* line 154: not business_data
    ELSE IF b.business_data \in {"missing", "null", "falsy"}
            \/ (b.business_data = "dict" /\ IsEmptyDict(bd))
    THEN JSONResponse(NoResult, 400, "business_data field is required")
    \* line 157 on a value without .get -> line 161
    ELSE IF b.business_data = "truthy"
    THEN JSONResponse(NoResult, 500, "AttributeError")
    ELSE LET r == calculate_eligibility(bd)
         IN IF r.status = "raise"
            THEN JSONResponse(NoResult, 500, r.error)
            ELSE JSONResponse(r, 200, "")

(***************************************************************************)
(* parse_gst_report                                                        *)
(***************************************************************************)
ReportKeys ==
    {"business_name", "gst_number", "pan_number", "annual_turnover",
     "filing_compliance", "credit_score", "existing_loans", "constitution",
     "address"}

\* lines 318-324
credit_score_map ==
    [g \in {"CMR-1", "CMR-2", "CMR-3", "CMR-4", "CMR-5"} |->
        CASE g = "CMR-1" -> 850
          [] g = "CMR-2" -> 750
          [] g = "CMR-3" -> 650
          [] g = "CMR-4" -> 550
          [] g = "CMR-5" -> 450]

NoParsed ==
    [status |-> "none", error |-> "",
     business_name |-> Absent, gst_number |-> Absent, pan_number |-> Absent,
     annual_turnover |-> Absent, filing_compliance |-> Absent,
     credit_score_text |-> Absent, credit_score_numeric |-> 0,
     existing_debt |-> Absent, constitution |-> Absent, address |-> Absent]

\* lines 315-340; parsed_at (the wall clock) is left out.
parse_gst_report(rep) ==
    LET grade == get(rep, "credit_score", StrV("CMR-2"))
    IN
    \* line 333: a list or an object is unhashable as a dict key
    IF grade.kind = "list"
    THEN [NoParsed EXCEPT !.status = "raise", !.error = "TypeError"]
    ELSE [status |-> "return", error |-> "",
          business_name |-> get(rep, "business_name", StrV("")),
          gst_number |-> get(rep, "gst_number", StrV("")),
          pan_number |-> get(rep, "pan_number", StrV("")),
          annual_turnover |-> get(rep, "annual_turnover", Num(0)),
          filing_compliance |-> get(rep, "filing_compliance", Num(0)),
          credit_score_text |-> grade,
          credit_score_numeric |->
              IF grade.kind = "str" /\ grade.str \in DOMAIN credit_score_map
              THEN credit_score_map[grade.str]
              ELSE 750,
          existing_debt |-> get(rep, "existing_loans", Num(0)),
          constitution |-> get(rep, "constitution", StrV("")),
          address |-> get(rep, "address", StrV(""))]

(***************************************************************************)
(* Inputs explored                                                         *)
(***************************************************************************)
Units == -1 .. MaxUnits

Bool(b) == [kind |-> "bool", num |-> IF b THEN 1 ELSE 0, str |-> ""]

Turnovers == {10 * k : k \in Units} \cup {24148440, 30000000}
Debts == {4 * k : k \in Units} \cup {2710443}
Amounts == {3 * k : k \in Units} \cup {5000000}
CreditScores == {500, 549, 550, 649, 650, 749, 750}

BusinessData ==
    [annual_turnover : {Num(n) : n \in Turnovers} \cup {Absent, Null},
     existing_debt : {Num(n) : n \in Debts} \cup {Absent, Null},
     loan_amount : {Num(n) : n \in Amounts} \cup {Absent, StrV("5 lakh")},
     requested_amount : {Absent, Num(3), Num(5000000)},
     credit_score_numeric :
         {Num(n) : n \in CreditScores} \cup {Absent, Null, StrV("CMR-3")},
     collateral_available : {Absent, Bool(TRUE), Bool(FALSE)},
     filing_compliance_score : {Absent, Num(59), Num(84), Null}]

EmptyDict == [k \in EligibilityKeys |-> Absent]

Bodies ==
    {[kind |-> "invalid_json", business_data |-> "missing"],
     [kind |-> "not_object", business_data |-> "missing"]}
    \cup [kind : {"object"},
          business_data : {"missing", "null", "falsy", "truthy", "dict"}]

Reports ==
    [business_name : {Absent, StrV("FINAGG")},
     gst_number : {Absent, StrV("09AADCF8429L1Z4")},
     pan_number : {Absent, Null},
     annual_turnover : {Absent, Num(24148440), StrV("n/a")},
     filing_compliance : {Absent, Num(84), Null},
     credit_score :
         {StrV(g) : g \in DOMAIN credit_score_map}
         \cup {Absent, Null, StrV("CMR-9"), StrV(""), Num(700), ListV},
     existing_loans : {Absent, Num(2710443), Null},
     constitution : {Absent, StrV("Private Limited")},
     address : {Absent, StrV("Noida")}]

EmptyReport == [k \in ReportKeys |-> Absent]

(***************************************************************************)
(* The state machine: each call is independent; the state holds the call   *)
(* being served, its argument and what it returned.                        *)
(***************************************************************************)
Init ==
    /\ pc = "idle"
    /\ op = "none"
    /\ business_data = EmptyDict
    /\ report = EmptyReport
    /\ body = [kind |-> "none", business_data |-> "missing"]
    /\ result = NoResult
    /\ parsed = NoParsed
    /\ response = NoResponse

\* the tool invocation of calculate_eligibility
CalculateEligibility ==
    /\ pc = "idle"
    /\ \E bd \in BusinessData :
        /\ business_data' = bd
        /\ result' = calculate_eligibility(bd)
    /\ pc' = "done"
    /\ op' = "calculate_eligibility"
    /\ UNCHANGED <<report, body, parsed, response>>

\* POST /api/calculate-eligibility
ApiCalculateEligibility ==
    /\ pc = "idle"
    /\ \E b \in Bodies :
       \E bd \in IF b.kind = "object" /\ b.business_data = "dict"
                 THEN BusinessData ELSE {EmptyDict} :
        /\ body' = b
        /\ business_data' = bd
        /\ response' = api_calculate_eligibility(b, bd)
    /\ result' = response'.content
    /\ pc' = "done"
    /\ op' = "api_calculate_eligibility"
    /\ UNCHANGED <<report, parsed>>

\* the tool invocation of parse_gst_report
ParseGstReport ==
    /\ pc = "idle"
    /\ \E rep \in Reports :
        /\ report' = rep
        /\ parsed' = parse_gst_report(rep)
    /\ pc' = "done"
    /\ op' = "parse_gst_report"
    /\ UNCHANGED <<business_data, body, result, response>>

\* the value is handed to the caller; nothing is kept between calls
Discard ==
    /\ pc = "done"
    /\ pc' = "idle"
    /\ op' = "none"
    /\ business_data' = EmptyDict
    /\ report' = EmptyReport
    /\ body' = [kind |-> "none", business_data |-> "missing"]
    /\ result' = NoResult
    /\ parsed' = NoParsed
    /\ response' = NoResponse

Next ==
    \/ CalculateEligibility
    \/ ApiCalculateEligibility
    \/ ParseGstReport
    \/ Discard

Spec == Init /\ [][Next]_vars

(***************************************************************************)
(* Properties                                                              *)
(***************************************************************************)
\* calculate_eligibility ran (directly or behind the REST route) and returned
Returned ==
    /\ pc = "done"
    /\ op \in {"calculate_eligibility", "api_calculate_eligibility"}
    /\ result.status = "return"

\* the inputs as the caller supplied them (0 when absent)
Turnover == get(business_data, "annual_turnover", Num(0)).num
Debt == get(business_data, "existing_debt", Num(0)).num
Score == get(business_data, "credit_score_numeric", Num(750)).num
Collateral ==
    business_data["collateral_available"].kind = "bool"
    /\ business_data["collateral_available"].num = 1

Requested == get(business_data, "loan_amount", Num(0)).num

\* the amounts are within the data model's ranges (none is negative)
InRange == Turnover >= 0 /\ Debt >= 0 /\ Requested >= 0

Min(a, b) == IF a < b THEN a ELSE b

\* C1 (as stated): every result has approved_amount <= max_eligible, and
\* approved_amount = 0 whenever the decision is DECLINED.
C1_Original ==
    Returned =>
        /\ result.approved_amount <= result.max_eligible
        /\ (result.decision = "DECLINED" => result.approved_amount = 0)

\* C1 (amended): approved_amount = 0 whenever the decision is DECLINED, for
\* every input; approved_amount <= max_eligible for every input whose
\* annual_turnover is not negative (absent counts as 0).
C1_ApprovedWithinMax ==
    Returned =>
        /\ (result.decision = "DECLINED" => result.approved_amount = 0)
        /\ (Turnover >= 0 => result.approved_amount <= result.max_eligible)

C1_Witness ==
    /\ Returned
    /\ result.decision = "CONDITIONAL"
    /\ result.max_eligible > 0
    /\ result.approved_amount = result.max_eligible

\* C2: a decision other than DECLINED is returned only if the credit score
\* is >= 650, the DTI ratio (debt/36 over turnover/12) is < 0.5 and the
\* filing compliance score is >= 0.6; a credit score of 500 with a compliant
\* DTI is DECLINED with approved_amount 0 whatever amount is requested.
\* Stated on the inputs whose amounts are within range.
C2_Gate ==
    (Returned /\ InRange) =>
        /\ result.decision # "DECLINED" =>
            /\ Score >= 650
            /\ Turnover > 0 /\ 2 * Debt < 3 * Turnover
            /\ ~ (business_data["filing_compliance_score"].kind = "num"
                  /\ business_data["filing_compliance_score"].num < 60)
        /\ (Score = 500 /\ Turnover > 0 /\ 10 * Debt <= 4 * Turnover) =>
            /\ result.decision = "DECLINED"
            /\ result.approved_amount = 0

\* C3: a request that carries the amount in requested_amount, passes the
\* gate and asks for no more than max_eligible is APPROVED for exactly the
\* amount requested.
C3_ApprovedForRequested ==
    ( /\ pc = "done"
      /\ op \in {"calculate_eligibility", "api_calculate_eligibility"}
      /\ result.status # "none"
      /\ business_data["requested_amount"].kind = "num"
      /\ business_data["loan_amount"].kind = "absent"
      /\ business_data["annual_turnover"].kind = "num"
      /\ business_data["existing_debt"].kind = "num"
      /\ business_data["credit_score_numeric"].kind = "num"
      /\ business_data["filing_compliance_score"].kind = "num"
      /\ business_data["filing_compliance_score"].num >= 60
      /\ Score >= 650
      /\ Turnover > 0 /\ Debt >= 0 /\ 10 * Debt <= 4 * Turnover
      /\ 10 * business_data["requested_amount"].num
            <= Min(3 * Turnover, 75000000) )
    => /\ result.status = "return"
       /\ result.decision = "APPROVED"
       /\ result.approved_amount = 10 * business_data["requested_amount"].num

\* C4 (as stated): for annual_turnover > 0, max_eligible is
\* min(0.5 * turnover, 50,000,000) with collateral and
\* min(0.3 * turnover, 7,500,000) without.  Stated on the inputs whose
\* amounts are within range.
C4_Original ==
    (Returned /\ InRange /\ Turnover > 0) =>
        result.max_eligible =
            IF Collateral THEN Min(5 * Turnover, 500000000)
            ELSE Min(3 * Turnover, 75000000)

\* C4 (amended): for annual_turnover > 0, max_eligible is 0.3 * turnover,
\* with or without collateral and with no cap.
C4_MaxEligibleFlat ==
    (Returned /\ Turnover > 0) => 10 * result.max_eligible = 30 * Turnover

C4_Witness ==
    /\ Returned
    /\ Turnover = 30000000
    /\ Collateral
    /\ result.max_eligible = 90000000

\* C5: with annual_turnover 0 or absent, dti_ratio is 1.0 and the decision
\* is never APPROVED, whatever the debt, the amount and the credit score.
C5_ZeroTurnoverDeclines ==
    (Returned /\ Turnover = 0) =>
        /\ result.dti_ratio = 1000
        /\ result.decision # "APPROVED"

C5_Witness ==
    /\ Returned
    /\ business_data["annual_turnover"].kind = "absent"
    /\ business_data["existing_debt"].kind = "null"
    /\ Score = 750
    /\ result.dti_ratio = 1000
    /\ result.decision = "DECLINED"

\* C6: calculate_eligibility never raises: every business_data mapping, with
\* fields absent or malformed, gets a decision.
C6_NeverRaises ==
    (pc = "done" /\ op = "calculate_eligibility") => result.status = "return"

\* the request is one the route hands to calculate_eligibility
Computes ==
    /\ body.kind = "object"
    /\ body.business_data = "dict"

C8_ParseTotal ==
    (pc = "done" /\ op = "parse_gst_report") =>
        LET grade == report["credit_score"]
        IN
        /\ parsed.status = "return"
        /\ parsed.credit_score_numeric =
            CASE grade = StrV("CMR-1") -> 850
              [] grade = StrV("CMR-2") -> 750
              [] grade = StrV("CMR-3") -> 650
              [] grade = StrV("CMR-4") -> 550
              [] grade = StrV("CMR-5") -> 450
              [] OTHER -> 750
        /\ (report["annual_turnover"].kind = "absent"
                => parsed.annual_turnover = Num(0))
        /\ (report["filing_compliance"].kind = "absent"
                => parsed.filing_compliance = Num(0))
        /\ (report["existing_loans"].kind = "absent"
                => parsed.existing_debt = Num(0))

\* C9: for annual_turnover > 0 the dti_ratio returned is
\* (existing_debt / 36) / (annual_turnover / 12), that is
\* existing_debt / (3 * annual_turnover), rounded to 3 places; for
\* turnover 24148440 and debt 2710443 it is 0.037.  Stated on the inputs
\* whose amounts are within range.
C9_DtiAmortised ==
    (Returned /\ InRange /\ Turnover > 0) =>
        /\ result.dti_ratio = round3(Debt, 3 * Turnover)
        /\ (Turnover = 24148440 /\ Debt = 2710443 => result.dti_ratio = 37)

\* C10 (as stated): risk_rating follows the decision: HIGH when DECLINED,
\* MEDIUM when CONDITIONAL, and when APPROVED LOW for a credit score >= 750
\* and MEDIUM otherwise.  Stated on the inputs whose amounts are within
\* range.
C10_Original ==
    (Returned /\ InRange) =>
        /\ (result.decision = "DECLINED" => result.risk_rating = "HIGH")
        /\ (result.decision = "CONDITIONAL" => result.risk_rating = "MEDIUM")
        /\ (result.decision = "APPROVED" =>
                result.risk_rating = IF Score >= 750 THEN "LOW" ELSE "MEDIUM")

\* C10 (amended): risk_rating follows the credit score alone, whatever the
\* decision: LOW from 750, LOW-MEDIUM from 650, MEDIUM from 550, HIGH below.
C10_RiskByScore ==
    Returned =>
        /\ (Score >= 750 <=> result.risk_rating = "LOW")
        /\ (Score >= 650 /\ Score < 750 <=> result.risk_rating = "LOW-MEDIUM")
        /\ (Score >= 550 /\ Score < 650 <=> result.risk_rating = "MEDIUM")
        /\ (Score < 550 <=> result.risk_rating = "HIGH")

C10_Witness ==
    /\ Returned
    /\ result.decision = "DECLINED"
    /\ Score = 750
    /\ result.risk_rating = "LOW"

====
